---- MODULE Spec2Model ----
(***************************************************************************)
(* Model of real-time_settings.py: a command line script that switches a   *)
(* desktop Linux between "real-time" settings and normal settings through  *)
(* a fixed list of settings modules.                                       *)
(*                                                                         *)
(* One process run is: argument parsing, the --list branch, the resolution *)
(* of --ignore, then one call of rt_settings_on / rt_settings_off per      *)
(* remaining module, in registration order.  The files the modules touch   *)
(* (cpufreq files, the intel_pstate no_turbo file, the snapshot file in    *)
(* the temp directory) outlive a run; everything else is per process.      *)
(***************************************************************************)
EXTENDS Integers, Sequences, FiniteSets, TLC

\* ------------------------------------------------------------------ bounds

\* longest --ignore list the model feeds to the script
MaxIgnore == 2
\* cpu_count() of the modelled machine
NumCpus == 2

\* ------------------------------------------------------- program constants

PSTATE_NO_TURBO_ON == 0
PSTATE_NO_TURBO_OFF_DEFAULT == 1
PSTATE_NO_TURBO_FILE_NAME == "/sys/devices/system/cpu/intel_pstate/no_turbo"

\* Python's None, as returned by a function that falls off its end
None == "<None>"

\* settings_modules after all class definitions ran, in registration order
RegisteredModules ==
  <<"CheckForRealTimeKernel", "Cron", "Tlp", "FrequencyScaling", "IntelPState">>

\* class attributes reachable from an instance of each class (own + ActionBase)
ClassAttrs(cls) ==
  {"TEMPFILE", "rt_settings_on", "rt_settings_off", "execute_safely", "service",
   "service_start", "service_stop", "_load_all_from_temp", "load_from_temp",
   "store_to_temp"}
  \cup
  (CASE cls = "FrequencyScaling" ->
         {"CPUFREQ_BASE_PATH", "CPUFREQ_MIN", "CPUFREQ_MAX",
          "CPUFREQ_MIN_ALLOWED", "HAS_PSTATES"}
     [] cls = "IntelPState" ->
         {"PSTATE_NO_TURBO_FILE_NAME", "PSTATE_NO_TURBO_ON",
          "PSTATE_NO_TURBO_OFF_DEFAULT", "_store_current_and_replace",
          "_restore_or_set"}
     [] OTHER -> {})

\* ------------------------------------------------------------ environment

\* a name that is no settings module
UnknownName == "NoSuchModule"
IgnoreNames == {RegisteredModules[i] : i \in 1..Len(RegisteredModules)} \cup {UnknownName}

Cpus == 0..(NumCpus - 1)
\* contents of the read-only cpuinfo_min_freq / cpuinfo_max_freq files
cpuinfo_min_freq == [c \in Cpus |-> "800000"]
cpuinfo_max_freq == [c \in Cpus |-> "3000000"]
\* contents scaling_min_freq can hold before the script ever ran
InitialScaling == {"800000", "1200000"}

\* one line of `systemctl list-unit-files`, reduced to its first
\* space-separated field, itself split at its last dot
UnitLine(root, ext) == [root |-> root, ext |-> ext]
\* a full listing: header, unit lines, blank line, "N unit files listed.",
\* and the empty string after the final newline
Listing(units) ==
  <<UnitLine("UNIT", "")>> \o units
    \o <<UnitLine("", ""), UnitLine("2", ""), UnitLine("", "")>>
\* present = FALSE: there is no systemctl to execute
UnitListings ==
  {[present |-> FALSE, lines |-> <<>>],
   [present |-> TRUE,
    lines |-> Listing(<<UnitLine("cron", ".service"), UnitLine("tlp", ".service")>>)]}

\* kernels: content of /sys/kernel/realtime ("absent": no such file), the
\* release's suffix, and the words of uname's version
Kernels ==
  {[rt_file |-> "absent", release_suffix |-> "-amd64",
    version |-> <<"#1", "SMP", "Debian">>],
   [rt_file |-> "1\n", release_suffix |-> "-amd64",
    version |-> <<"#1", "SMP", "PREEMPT", "RT", "Debian">>],
   [rt_file |-> "absent", release_suffix |-> "+rt",
    version |-> <<"#1", "SMP">>]}

\* an empty JSON object / Python dict
EmptyDict == [k \in {} |-> ""]
AbsentFile == [kind |-> "absent", obj |-> EmptyDict]
MalformedFile == [kind |-> "malformed", obj |-> EmptyDict]
JsonFile(obj) == [kind |-> "json", obj |-> obj]

\* -------------------------------------------------------------- variables

VARIABLES
  \* the machine
  unit_files,        \* whether systemctl exists, and what list-unit-files prints
  scaling_min_freq,  \* cpu -> content of cpuN/cpufreq/scaling_min_freq
  no_turbo,          \* content of intel_pstate/no_turbo
  tempfile,          \* ActionBase.TEMPFILE
  \* the process
  argv,              \* the command line as given
  uid,               \* getuid()
  cli_args,          \* parser.parse_args(); .ignore is mutated by the script
  pc,                \* "idle" | "parsed" | "resolved" | "exit"
  settings_modules,  \* the module list the loops iterate
  idx,               \* position of the on/off loop (1-based)
  invoked,           \* modules whose rt_settings_on/off was called, in order
  exit_code,         \* -1 while running
  raised,            \* the uncaught exception, or "none"
  cache,             \* ActionBase._available_services_cache
  effects,           \* real process executions and file writes, in order
  printed,           \* lines on stdout
  logged,            \* emitted log records
  svc_log,           \* one record per call of ActionBase.service
  \* observation across runs
  freq_phase,        \* "applied" after a real rt_settings_on of FrequencyScaling
                     \* returned, "reverted" after a real rt_settings_off
                     \* returned next, "none" otherwise
  freq_pre,          \* scaling_min_freq as that rt_settings_on found it
  turbo_phase,       \* the same for IntelPState called by root in a real run,
                     \* whether or not the call returned
  turbo_pre,         \* no_turbo as that rt_settings_on found it
  \* direct use of the state store
  store_call, store_ret

machine_vars == <<unit_files, scaling_min_freq, no_turbo, tempfile>>
process_vars == <<argv, uid, cli_args, pc, settings_modules, idx, invoked,
                  exit_code, raised, cache, effects, printed, logged, svc_log>>
history_vars == <<freq_phase, freq_pre, turbo_phase, turbo_pre>>
store_vars == <<store_call, store_ret>>
vars == <<machine_vars, process_vars, history_vars, store_vars>>

\* --------------------------------------------------------- pure helpers

RECURSIVE SeqsUpTo(_, _)
\* all sequences over S of length at most n
SeqsUpTo(S, n) ==
  IF n = 0 THEN {<<>>}
  ELSE LET shorter == SeqsUpTo(S, n - 1)
       IN shorter \cup {Append(s, x) : s \in {t \in shorter : Len(t) = n - 1}, x \in S}

InSeq(x, s) == \E i \in 1..Len(s) : s[i] = x

\* list.remove(x): drops the first occurrence of x
RemoveFirst(s, x) ==
  LET i == CHOOSE j \in 1..Len(s) : s[j] = x /\ \A k \in 1..(j - 1) : s[k] # x
  IN SubSeq(s, 1, i - 1) \o SubSeq(s, i + 1, Len(s))

\* seq[a:b] of Python for a >= 0 and b < 0
Slice(s, a, b) == SubSeq(s, a + 1, Len(s) + b)

\* path.splitext(name)[0]
SplitextRoot(line) == line.root

\* str() of the two integers the script converts
Str(n) == CASE n = 0 -> "0" [] n = 1 -> "1" [] OTHER -> None

\* truth value of a Python object as used by `or`
Truthy(v) == v # None /\ v # ""

\* the root logger's level after lines 47-51 (default WARNING)
LogLevel(args) ==
  IF args.verbose THEN "INFO" ELSE IF args.debug THEN "DEBUG" ELSE "WARNING"

\* whether a record of `level` passes a logger set to `threshold`
LogEnabled(level, threshold) ==
  CASE threshold = "DEBUG" -> TRUE
    [] threshold = "INFO" -> level # "DEBUG"
    [] OTHER -> level \in {"WARNING", "ERROR"}

\* The part of the process the module operations read and change.
World ==
  [cache |-> cache, effects |-> effects, printed |-> printed,
   logged |-> logged, svc_log |-> svc_log, raised |-> raised,
   scaling_min_freq |-> scaling_min_freq, no_turbo |-> no_turbo,
   tempfile |-> tempfile]

\* logging.debug / info / warn / error
Log(w, level, msg) ==
  IF LogEnabled(level, LogLevel(cli_args))
  THEN [w EXCEPT !.logged = Append(@, [level |-> level, msg |-> msg])]
  ELSE w

\* a real operation (process execution, file write) or its description
Eff(op, a, b, cpu) == [op |-> op, a |-> a, b |-> b, cpu |-> cpu]
NoEff == Eff("", "", "", -1)

\* ------------------------------------------------------------ State Store

\* ActionBase._load_all_from_temp: the file's object, {} when the file is
\* absent (FileNotFoundError) or is no JSON (ValueError)
load_all_from_temp(tf) == IF tf.kind = "json" THEN tf.obj ELSE EmptyDict

\* dict.get(key, default)
DictGet(obj, key, default) == IF key \in DOMAIN obj THEN obj[key] ELSE default

\* ActionBase.load_from_temp: evaluates the lookup and returns nothing
load_from_temp(tf, key, default) ==
  LET looked_up == DictGet(load_all_from_temp(tf), key, default)
  IN None

\* ActionBase.store_to_temp: the file after the call
store_to_temp(tf, key, value) ==
  LET obj == load_all_from_temp(tf)
  IN JsonFile([k \in DOMAIN obj \cup {key} |-> IF k = key THEN value ELSE obj[k]])

\* --------------------------------------------------------- Command Runner

\* the debug record execute_safely writes before a real call
Executing(w) == Log(w, "DEBUG", "executing")


\* execute_safely without its simulate branch
execute_safely_unconditional(w, what, done) == done

\* ActionBase.execute_safely; `what` describes the call and `done` is the
\* world after really making it
execute_safely(w, what, done) ==
  IF cli_args.simulate
  THEN [w EXCEPT !.printed =
          Append(@, [text |-> "simulating - would execute", what |-> what])]
  ELSE done

\* subprocess.call((which("systemctl"), action, name)): runs the command and
\* returns its exit status, whatever it is
call_systemctl(w, action, name) ==
  [w EXCEPT !.effects = Append(@, Eff("call", action, name, -1))]

\* shutil.copyfile(src, scaling_min_freq of cpu): opening the destination for
\* writing fails unless root
copyfile(w, src_name, src_content, cpu) ==
  IF uid # 0
  THEN [w EXCEPT !.raised = "PermissionError"]
  ELSE [w EXCEPT !.scaling_min_freq[cpu] = src_content,
                 !.effects = Append(@, Eff("copyfile", src_name, "scaling_min_freq", cpu))]

\* ----------------------------------------------------- Service Controller

\* the loop at lines 98-101 over output.split("\n")[1:-3]
ParseUnits(lines) ==
  LET body == Slice(lines, 1, -3)
      roots == [i \in 1..Len(body) |-> SplitextRoot(body[i])]
  IN SelectSeq(roots, LAMBDA r : r # "")

\* first use of service(): lines 94-103
populate_cache(w) ==
  LET w0 == [w EXCEPT !.cache = [has |-> TRUE, names |-> <<>>]]
  IN IF ~unit_files.present
     THEN [w0 EXCEPT !.raised = "FileNotFoundError"]
     ELSE Log([w0 EXCEPT
                 !.effects = Append(@, Eff("check_output", "systemctl", "list-unit-files", -1)),
                 !.cache.names = ParseUnits(unit_files.lines)],
              "DEBUG", "found services")


\* service without the test at line 105
service_unchecked(w, name, action) ==
  IF w.raised # "none" THEN w
  ELSE
    LET w1 == IF w.cache.has THEN w ELSE populate_cache(w)
        rec == [name |-> name, action |-> action, listed |-> w1.raised = "none",
                ran |-> FALSE, raised |-> w1.raised]
    IN IF w1.raised # "none"
       THEN [w1 EXCEPT !.svc_log = Append(@, rec)]
       ELSE LET w2 == execute_safely(w1, Eff("call", action, name, -1),
                                     call_systemctl(Executing(w1), action, name))
            IN [w2 EXCEPT !.svc_log =
                  Append(@, [rec EXCEPT !.ran = TRUE, !.raised = w2.raised])]

\* ActionBase.service
service(w, name, action) ==
  IF w.raised # "none" THEN w
  ELSE
    LET had == w.cache.has
        w1 == IF had THEN w ELSE populate_cache(w)
        member == InSeq(name, w1.cache.names)
        rec == [name |-> name, action |-> action, listed |-> w1.raised = "none",
                ran |-> FALSE, raised |-> w1.raised]
    IN IF w1.raised # "none"
       THEN [w1 EXCEPT !.svc_log = Append(@, rec)]
       ELSE IF ~member
       THEN [Log(w1, "INFO", "service does not seem to exist")
               EXCEPT !.svc_log = Append(@, rec)]
       ELSE LET w2 == execute_safely(w1, Eff("call", action, name, -1),
                                     call_systemctl(Executing(w1), action, name))
            IN [w2 EXCEPT !.svc_log =
                  Append(@, [rec EXCEPT !.ran = TRUE, !.raised = w2.raised])]

service_start(w, name) == service(w, name, "start")
service_stop(w, name) == service(w, name, "stop")

\* ------------------------------------------------------- Settings Modules

\* " WORD " in version: the word with a space on both sides
HasInnerWord(words, word) == \E i \in 2..(Len(words) - 1) : words[i] = word

\* CheckForRealTimeKernel.rt_settings_on on kernel k; readline() keeps the
\* line's newline
CheckForRealTimeKernel_rt_settings_on(w, k) ==
  IF k.rt_file # "absent" /\ k.rt_file = "1"
  THEN Log(w, "DEBUG", "found /sys/kernel/realtime with '1' in it")
  ELSE IF k.release_suffix = "+rt"
  THEN Log(w, "DEBUG", "found +rt in kernel release")
  ELSE IF HasInnerWord(k.version, "RT")
  THEN Log(w, "DEBUG", "found RT in kernel version")
  ELSE IF HasInnerWord(k.version, "PREEMPT")
  THEN Log(w, "DEBUG", "found PREEMT in kernel version")
  ELSE Log(w, "WARNING", "You don't seem to be using a real-time kernel.")

\* ActionBase.rt_settings_on / rt_settings_off: pass
ActionBase_rt_settings(w) == w

Cron_rt_settings_on(w) == service_stop(service_stop(w, "cron"), "crond")
Cron_rt_settings_off(w) == service_start(service_start(w, "cron"), "crond")

Tlp_rt_settings_on(w) == service_stop(w, "tlp")
Tlp_rt_settings_off(w) == service_start(w, "tlp")

RECURSIVE CopyLoop(_, _, _, _)
\* for cpu_num in range(cpu_count()): execute_safely(copyfile, src, min_allowed)
CopyLoop(w, cpu, src_name, src) ==
  IF cpu >= NumCpus \/ w.raised # "none" THEN w
  ELSE CopyLoop(execute_safely(w, Eff("copyfile", src_name, "scaling_min_freq", cpu),
                               copyfile(Executing(w), src_name, src[cpu], cpu)),
                cpu + 1, src_name, src)

FrequencyScaling_rt_settings_on(w) ==
  CopyLoop(w, 0, "cpuinfo_max_freq", cpuinfo_max_freq)


\* rt_settings_off copying from CPUFREQ_MAX like rt_settings_on
FrequencyScaling_off_source_max == cpuinfo_max_freq

\* the file rt_settings_off copies from: CPUFREQ_MIN
FrequencyScaling_off_source == cpuinfo_min_freq

FrequencyScaling_rt_settings_off(w) ==
  CopyLoop(w, 0, "cpuinfo_min_freq", FrequencyScaling_off_source)

\* path.join(self.PSTATE_BASE_PATH, file_name): the attribute lookup comes
\* first; file_name is absolute, so the join would return it
IntelPState_file_path(file_name) ==
  IF "PSTATE_BASE_PATH" \in ClassAttrs("IntelPState") THEN file_name ELSE None

\* open(file_path, "w+") and write: fails unless root
WriteNoTurbo(w, text) ==
  IF uid # 0
  THEN [w EXCEPT !.raised = "PermissionError"]
  ELSE [w EXCEPT !.no_turbo = text,
                 !.effects = Append(@, Eff("write", "no_turbo", text, -1))]

\* IntelPState._store_current_and_replace
IntelPState_store_current_and_replace(w, file_name, value) ==
  LET file_path == IntelPState_file_path(file_name)
  IN IF file_path = None
     THEN [w EXCEPT !.raised = "AttributeError"]
     ELSE LET content == w.no_turbo  \* readline().strip(): the text, no line end
              w1 == [w EXCEPT
                       !.tempfile = store_to_temp(@, file_path, content),
                       !.effects = Append(@, Eff("write", "tempfile", content, -1))]
          IN WriteNoTurbo(w1, Str(value))

\* IntelPState._restore_or_set
IntelPState_restore_or_set(w, file_name, default) ==
  LET file_path == IntelPState_file_path(file_name)
  IN IF file_path = None
     THEN [w EXCEPT !.raised = "AttributeError"]
     ELSE LET loaded == load_from_temp(w.tempfile, file_name, None)
          IN WriteNoTurbo(w, IF Truthy(loaded) THEN loaded ELSE Str(default))

IntelPState_rt_settings_on(w) ==
  execute_safely(w, Eff("_store_current_and_replace", "no_turbo",
                        Str(PSTATE_NO_TURBO_ON), -1),
                 IntelPState_store_current_and_replace(
                   Executing(w), PSTATE_NO_TURBO_FILE_NAME, PSTATE_NO_TURBO_ON))

IntelPState_rt_settings_off(w) ==
  execute_safely(w, Eff("_restore_or_set", "no_turbo",
                        Str(PSTATE_NO_TURBO_OFF_DEFAULT), -1),
                 IntelPState_restore_or_set(
                   Executing(w), PSTATE_NO_TURBO_FILE_NAME,
                   PSTATE_NO_TURBO_OFF_DEFAULT))

\* ----------------------------------------------------------------- Driver

\* every command line the model feeds to the script
Args ==
  [debug : BOOLEAN, verbose : BOOLEAN, simulate : BOOLEAN, list : BOOLEAN,
   ignore : SeqsUpTo(IgnoreNames, MaxIgnore), on_or_off : {"on", "off", "none"}]

\* command lines of a plain on/off/simulate session
PlainArgs ==
  [debug : {FALSE}, verbose : {FALSE}, simulate : BOOLEAN, list : {FALSE},
   ignore : {<<>>}, on_or_off : {"on", "off", "none"}]

Uids == {0, 1000}

RECURSIVE ResolveLoop(_, _, _)
\* the loop at lines 234-238 from position i, on
\* r = [unignored |-> list of modules, ignore |-> cli_args.ignore]
ResolveLoop(mods, i, r) ==
  IF i > Len(mods) THEN r
  ELSE IF InSeq(mods[i], r.ignore)
  THEN ResolveLoop(mods, i + 1,
                   [unignored |-> RemoveFirst(r.unignored, mods[i]),
                    ignore |-> RemoveFirst(r.ignore, mods[i])])
  ELSE ResolveLoop(mods, i + 1, r)


\* the loop removing the names from cli_args.ignore only
ResolveIgnored_keep_modules(mods, ignore) ==
  [unignored |-> mods,
   ignore |-> ResolveLoop(mods, 1, [unignored |-> mods, ignore |-> ignore]).ignore]

\* lines 233-238
ResolveIgnored(mods, ignore) ==
  ResolveLoop(mods, 1, [unignored |-> mods, ignore |-> ignore])


\* the test of line 239 never taken
IgnoreLeft_never(ignore) == FALSE

\* line 239: `if cli_args.ignore:`
IgnoreLeft(ignore) == ignore # <<>>


\* each module's operation isolated: the loop goes on after an exception
AfterCall_isolated(exc) ==
  [pc |-> "resolved", exit_code |-> -1, idx |-> idx + 1]

\* what the interpreter does after a module's operation returned or raised
\* exc: an uncaught exception ends the process with status 1, otherwise the
\* for loop goes on
AfterCall(exc) ==
  IF exc # "none"
  THEN [pc |-> "exit", exit_code |-> 1, idx |-> idx]
  ELSE [pc |-> "resolved", exit_code |-> -1, idx |-> idx + 1]

\* the state of a process that has not started
ProcessReset ==
  /\ argv = [debug |-> FALSE, verbose |-> FALSE, simulate |-> FALSE,
             list |-> FALSE, ignore |-> <<>>, on_or_off |-> "none"]
  /\ cli_args = argv
  /\ uid = 0
  /\ pc = "idle"
  /\ settings_modules = RegisteredModules
  /\ idx = 1
  /\ invoked = <<>>
  /\ exit_code = -1
  /\ raised = "none"
  /\ cache = [has |-> FALSE, names |-> <<>>]
  /\ effects = <<>>
  /\ printed = <<>>
  /\ logged = <<>>
  /\ svc_log = <<>>

StoreIdle ==
  /\ store_call = [op |-> "none", key |-> "", arg |-> "", before |-> AbsentFile]
  /\ store_ret = None

Init ==
  /\ unit_files \in UnitListings
  /\ scaling_min_freq = [c \in Cpus |-> "800000"]
  /\ no_turbo \in {"0", "1"}
  /\ tempfile \in {AbsentFile, JsonFile(EmptyDict)}
  /\ ProcessReset
  /\ freq_phase = "none" /\ freq_pre = scaling_min_freq
  /\ turbo_phase = "none" /\ turbo_pre = no_turbo
  /\ StoreIdle

\* the interpreter starts: lines 24-53 and the class definitions
Launch(a, u) ==
  /\ argv' = a
  /\ cli_args' = a
  /\ uid' = u
  /\ pc' = "parsed"
  /\ settings_modules' = RegisteredModules
  /\ UNCHANGED <<idx, invoked, exit_code, raised, cache, effects, printed,
                 logged, svc_log>>
  /\ UNCHANGED <<machine_vars, history_vars, store_vars>>

\* the user runs the script with some command line, as some user
StartRun ==
  /\ pc = "idle"
  /\ \E a \in Args, u \in Uids : Launch(a, u)

\* lines 227-230
ListModules ==
  /\ pc = "parsed"
  /\ cli_args.list
  /\ printed' = printed \o [i \in 1..Len(settings_modules) |->
                              [text |-> settings_modules[i], what |-> NoEff]]
  /\ pc' = "exit"
  /\ exit_code' = 0
  /\ UNCHANGED <<argv, uid, cli_args, settings_modules, idx, invoked, raised,
                 cache, effects, logged, svc_log>>
  /\ UNCHANGED <<machine_vars, history_vars, store_vars>>

\* lines 232-248
ResolveIgnore ==
  /\ pc = "parsed"
  /\ ~cli_args.list
  /\ LET r == ResolveIgnored(settings_modules, cli_args.ignore)
     IN /\ cli_args' = [cli_args EXCEPT !.ignore = r.ignore]
        /\ IF IgnoreLeft(r.ignore)
           THEN /\ logged' = Log(World, "ERROR",
                                 "Could not find settings modules to ignore").logged
                /\ pc' = "exit"
                /\ exit_code' = 1
                /\ UNCHANGED settings_modules
           ELSE /\ settings_modules' = r.unignored
                /\ logged' = (IF cli_args.on_or_off # "none" /\ uid # 0
                              THEN Log(World, "WARNING",
                                       "You'll probably have to run this as root")
                              ELSE World).logged
                /\ pc' = "resolved"
                /\ UNCHANGED exit_code
  /\ UNCHANGED <<argv, uid, idx, invoked, raised, cache, effects, printed, svc_log>>
  /\ UNCHANGED <<machine_vars, history_vars, store_vars>>

\* lines 258-259, and the end of the script
NoMode ==
  /\ pc = "resolved"
  /\ cli_args.on_or_off = "none"
  /\ printed' = Append(printed,
                       [text |-> "please provide either 'on' or 'off' as last argument (see -h)",
                        what |-> NoEff])
  /\ pc' = "exit"
  /\ exit_code' = 0
  /\ UNCHANGED <<argv, uid, cli_args, settings_modules, idx, invoked, raised,
                 cache, effects, logged, svc_log>>
  /\ UNCHANGED <<machine_vars, history_vars, store_vars>>

\* a for loop of lines 250-257 is exhausted: the script ends
Finish ==
  /\ pc = "resolved"
  /\ cli_args.on_or_off \in {"on", "off"}
  /\ idx > Len(settings_modules)
  /\ pc' = "exit"
  /\ exit_code' = 0
  /\ UNCHANGED <<argv, uid, cli_args, settings_modules, idx, invoked, raised,
                 cache, effects, printed, logged, svc_log>>
  /\ UNCHANGED <<machine_vars, history_vars, store_vars>>

\* the loop is at module m in mode `mode`
AtModule(m, mode) ==
  /\ pc = "resolved"
  /\ cli_args.on_or_off = mode
  /\ idx <= Len(settings_modules)
  /\ settings_modules[idx] = m

\* the world as the loop body sees it after its logging.info
Entered(m) ==
  Log(World, "INFO", "real-time settings " \o cli_args.on_or_off \o ": " \o m)

\* one iteration of a loop of lines 250-257: SettingsModule().rt_settings_*()
\* was called on m and left the world w
Iteration(m, w) ==
  /\ invoked' = Append(invoked, m)
  /\ cache' = w.cache
  /\ effects' = w.effects
  /\ printed' = w.printed
  /\ logged' = w.logged
  /\ svc_log' = w.svc_log
  /\ raised' = w.raised
  /\ scaling_min_freq' = w.scaling_min_freq
  /\ no_turbo' = w.no_turbo
  /\ tempfile' = w.tempfile
  /\ LET n == AfterCall(w.raised)
     IN pc' = n.pc /\ exit_code' = n.exit_code /\ idx' = n.idx
  /\ UNCHANGED <<argv, uid, cli_args, settings_modules, unit_files, store_vars>>

CheckForRealTimeKernel_on ==
  /\ AtModule("CheckForRealTimeKernel", "on")
  /\ \E k \in Kernels :
       Iteration("CheckForRealTimeKernel",
                 CheckForRealTimeKernel_rt_settings_on(Entered("CheckForRealTimeKernel"), k))
  /\ UNCHANGED history_vars

CheckForRealTimeKernel_off ==
  /\ AtModule("CheckForRealTimeKernel", "off")
  /\ Iteration("CheckForRealTimeKernel",
               ActionBase_rt_settings(Entered("CheckForRealTimeKernel")))
  /\ UNCHANGED history_vars

Cron_on ==
  /\ AtModule("Cron", "on")
  /\ Iteration("Cron", Cron_rt_settings_on(Entered("Cron")))
  /\ UNCHANGED history_vars

Cron_off ==
  /\ AtModule("Cron", "off")
  /\ Iteration("Cron", Cron_rt_settings_off(Entered("Cron")))
  /\ UNCHANGED history_vars

Tlp_on ==
  /\ AtModule("Tlp", "on")
  /\ Iteration("Tlp", Tlp_rt_settings_on(Entered("Tlp")))
  /\ UNCHANGED history_vars

Tlp_off ==
  /\ AtModule("Tlp", "off")
  /\ Iteration("Tlp", Tlp_rt_settings_off(Entered("Tlp")))
  /\ UNCHANGED history_vars

FrequencyScaling_on ==
  /\ AtModule("FrequencyScaling", "on")
  /\ LET w == FrequencyScaling_rt_settings_on(Entered("FrequencyScaling"))
     IN /\ Iteration("FrequencyScaling", w)
        /\ IF cli_args.simulate
           THEN UNCHANGED <<freq_phase, freq_pre>>
           ELSE IF w.raised = "none"
           THEN freq_phase' = "applied" /\ freq_pre' = scaling_min_freq
           ELSE freq_phase' = "none" /\ UNCHANGED freq_pre
  /\ UNCHANGED <<turbo_phase, turbo_pre>>

FrequencyScaling_off ==
  /\ AtModule("FrequencyScaling", "off")
  /\ LET w == FrequencyScaling_rt_settings_off(Entered("FrequencyScaling"))
     IN /\ Iteration("FrequencyScaling", w)
        /\ IF cli_args.simulate
           THEN UNCHANGED freq_phase
           ELSE freq_phase' = (IF w.raised = "none" /\ freq_phase = "applied"
                               THEN "reverted" ELSE "none")
  /\ UNCHANGED <<freq_pre, turbo_phase, turbo_pre>>

IntelPState_on ==
  /\ AtModule("IntelPState", "on")
  /\ Iteration("IntelPState", IntelPState_rt_settings_on(Entered("IntelPState")))
  /\ IF cli_args.simulate \/ uid # 0
     THEN UNCHANGED <<turbo_phase, turbo_pre>>
     ELSE turbo_phase' = "applied" /\ turbo_pre' = no_turbo
  /\ UNCHANGED <<freq_phase, freq_pre>>

IntelPState_off ==
  /\ AtModule("IntelPState", "off")
  /\ Iteration("IntelPState", IntelPState_rt_settings_off(Entered("IntelPState")))
  /\ IF cli_args.simulate \/ uid # 0
     THEN UNCHANGED turbo_phase
     ELSE turbo_phase' = (IF turbo_phase = "applied" THEN "reverted" ELSE "none")
  /\ UNCHANGED <<turbo_pre, freq_phase, freq_pre>>

ModuleStep ==
  \/ CheckForRealTimeKernel_on
  \/ CheckForRealTimeKernel_off
  \/ Cron_on
  \/ Cron_off
  \/ Tlp_on
  \/ Tlp_off
  \/ FrequencyScaling_on
  \/ FrequencyScaling_off
  \/ IntelPState_on
  \/ IntelPState_off

\* one run of the script on any command line
Next ==
  \/ StartRun
  \/ ListModules
  \/ ResolveIgnore
  \/ NoMode
  \/ Finish
  \/ ModuleStep

Spec == Init /\ [][Next]_vars

\* ------------------------------------------------- repeated plain sessions

\* like Init, with any content of the scaling_min_freq files
SessionInit ==
  /\ unit_files \in UnitListings
  /\ scaling_min_freq \in [Cpus -> InitialScaling]
  /\ no_turbo \in {"0", "1"}
  /\ tempfile \in {AbsentFile, JsonFile(EmptyDict)}
  /\ ProcessReset
  /\ freq_phase = "none" /\ freq_pre = scaling_min_freq
  /\ turbo_phase = "none" /\ turbo_pre = no_turbo
  /\ StoreIdle

\* the user runs the script with on, off or nothing, simulating or not
StartPlainRun ==
  /\ pc = "idle"
  /\ \E a \in PlainArgs, u \in Uids : Launch(a, u)

\* the process is gone; the machine stays as the run left it
NewProcess ==
  /\ pc = "exit"
  /\ argv' = [debug |-> FALSE, verbose |-> FALSE, simulate |-> FALSE,
              list |-> FALSE, ignore |-> <<>>, on_or_off |-> "none"]
  /\ cli_args' = argv'
  /\ uid' = 0
  /\ pc' = "idle"
  /\ settings_modules' = RegisteredModules
  /\ idx' = 1
  /\ invoked' = <<>>
  /\ exit_code' = -1
  /\ raised' = "none"
  /\ cache' = [has |-> FALSE, names |-> <<>>]
  /\ effects' = <<>>
  /\ printed' = <<>>
  /\ logged' = <<>>
  /\ svc_log' = <<>>
  /\ UNCHANGED <<machine_vars, history_vars, store_vars>>

SessionNext ==
  \/ StartPlainRun
  \/ ResolveIgnore
  \/ NoMode
  \/ Finish
  \/ ModuleStep
  \/ NewProcess

SessionSpec == SessionInit /\ [][SessionNext]_vars

\* ------------------------------------------- the state store used directly

StoreKeys == {PSTATE_NO_TURBO_FILE_NAME, "other"}
StoreValues == {"0", "1"}
StoreFiles ==
  {AbsentFile, MalformedFile}
  \cup {JsonFile(obj) : obj \in UNION {[D -> StoreValues] : D \in SUBSET StoreKeys}}

StoreInit ==
  /\ unit_files = [present |-> FALSE, lines |-> <<>>]
  /\ scaling_min_freq = [c \in Cpus |-> "800000"]
  /\ no_turbo = "1"
  /\ tempfile \in StoreFiles
  /\ ProcessReset
  /\ freq_phase = "none" /\ freq_pre = scaling_min_freq
  /\ turbo_phase = "none" /\ turbo_pre = no_turbo
  /\ StoreIdle

\* a module calls self.store_to_temp(key, value)
StoreToTemp ==
  \E key \in StoreKeys, value \in StoreValues :
    /\ tempfile' = store_to_temp(tempfile, key, value)
    /\ store_call' = [op |-> "store_to_temp", key |-> key, arg |-> value,
                      before |-> tempfile]
    /\ store_ret' = None
    /\ UNCHANGED <<unit_files, scaling_min_freq, no_turbo, process_vars, history_vars>>

\* a module calls self.load_from_temp(key, default)
LoadFromTemp ==
  \E key \in StoreKeys, default \in StoreValues \cup {None} :
    /\ store_ret' = load_from_temp(tempfile, key, default)
    /\ store_call' = [op |-> "load_from_temp", key |-> key, arg |-> default,
                      before |-> tempfile]
    /\ UNCHANGED <<machine_vars, process_vars, history_vars>>

StoreNext ==
  \/ StoreToTemp
  \/ LoadFromTemp

StoreSpec == StoreInit /\ [][StoreNext]_vars

\* ----------------------------------------------------------------- claims

IsRegistered(name) == InSeq(name, RegisteredModules)
\* the registered modules other than n, in registration order
AllBut(n) == SelectSeq(RegisteredModules, LAMBDA m : m # n)
IsPrefix(s, t) == Len(s) <= Len(t) /\ s = SubSeq(t, 1, Len(s))
CountOp(log, op) == Cardinality({i \in 1..Len(log) : log[i].op = op})

\* C1, as claimed: a real rt_settings_on of IntelPState run by root snapshots
\* the content c of the no_turbo file into the state store and overwrites the
\* file, and the real rt_settings_off after it leaves the file holding c.
C1_TurboRoundTrip ==
  /\ turbo_phase = "applied" =>
       /\ tempfile.kind = "json"
       /\ PSTATE_NO_TURBO_FILE_NAME \in DOMAIN tempfile.obj
       /\ tempfile.obj[PSTATE_NO_TURBO_FILE_NAME] = turbo_pre
       /\ no_turbo = Str(PSTATE_NO_TURBO_ON)
  /\ turbo_phase = "reverted" => no_turbo = turbo_pre

\* a run with --ignore N for a registered N, in mode on or off
IgnoresOne ==
  /\ pc # "idle"
  /\ ~argv.list
  /\ argv.on_or_off \in {"on", "off"}
  /\ Len(argv.ignore) = 1
  /\ IsRegistered(argv.ignore[1])

\* C2, as claimed: a finished run with --ignore N has invoked the operation
\* on exactly the registered modules other than N, once each, in order.
C2_IgnoreOneInvokesAllOthers ==
  (IgnoresOne /\ pc = "exit") => invoked = AllBut(argv.ignore[1])

\* C2, amended: a run with --ignore N invokes the operation on the registered
\* modules other than N in registration order, never on N and none twice, and
\* stops at the first one that raises; a run in which none raises has invoked
\* all of them.
C2_IgnoreOneInvokesOthersUntilRaise ==
  IgnoresOne =>
    /\ IsPrefix(invoked, AllBut(argv.ignore[1]))
    /\ (pc = "exit" /\ raised = "none") => invoked = AllBut(argv.ignore[1])
    /\ (pc = "exit" /\ raised # "none") => invoked # <<>>

C2_Witness ==
  /\ IgnoresOne
  /\ pc = "exit"
  /\ argv.ignore = <<"IntelPState">>
  /\ argv.on_or_off = "on"
  /\ ~argv.simulate
  /\ raised = "none"
  /\ invoked = <<"CheckForRealTimeKernel", "Cron", "Tlp", "FrequencyScaling">>

\* C3, as claimed: a run whose --ignore list holds an unknown name exits
\* nonzero and invokes no module, whatever the other flags.
C3_UnknownIgnoreExitsNonzero ==
  (pc = "exit" /\ InSeq(UnknownName, argv.ignore)) =>
    exit_code # 0 /\ invoked = <<>>

\* C3, amended: a run whose --ignore list holds an unknown name invokes no
\* module; it exits with 1, unless --list is given: then it lists the modules
\* and exits with 0.
C3_UnknownIgnoreExitsUnlessList ==
  InSeq(UnknownName, argv.ignore) =>
    /\ invoked = <<>>
    /\ pc # "resolved"
    /\ pc = "exit" => exit_code = (IF argv.list THEN 0 ELSE 1)

C3_Witness ==
  /\ pc = "exit"
  /\ argv.ignore = <<"Cron", UnknownName>>
  /\ argv.on_or_off = "on"
  /\ ~argv.list
  /\ exit_code = 1
  /\ invoked = <<>>

\* C4, as claimed: a --simulate run executes no external process and writes
\* no file.
C4_SimulateRunsNothing ==
  argv.simulate => effects = <<>>

\* would-be actions of module m, given the cached unit names
WouldBe(m, names) ==
  CASE m = "Cron" -> Cardinality({n \in {"cron", "crond"} : InSeq(n, names)})
    [] m = "Tlp" -> Cardinality({n \in {"tlp"} : InSeq(n, names)})
    [] m = "FrequencyScaling" -> NumCpus
    [] m = "IntelPState" -> 1
    [] OTHER -> 0

\* C4, amended: a step of a --simulate run writes no file and starts or stops
\* no service; the only process it may execute is the read-only
\* `systemctl list-unit-files`; and a module's operation that returns has
\* printed one description per would-be action.
C4_SimulateOnlyListsUnits ==
  [][cli_args.simulate =>
       /\ UNCHANGED <<scaling_min_freq, no_turbo, tempfile>>
       /\ \A i \in 1..Len(effects') : effects'[i].op = "check_output"
       /\ (invoked' # invoked /\ raised' = "none") =>
            Len(printed') = Len(printed)
                            + WouldBe(invoked'[Len(invoked')], cache'.names)]_vars

C4_Witness ==
  /\ argv.simulate
  /\ pc = "exit"
  /\ raised = "none"
  /\ argv.on_or_off = "on"
  /\ argv.ignore = <<>>
  /\ CountOp(effects, "check_output") = 1
  /\ Len(printed) = 2 + NumCpus + 1
  /\ Len(invoked) = 5

\* C5, as claimed: load_from_temp(key, default) returns the value the
\* snapshot holds under key, and default when the snapshot has no such key.
C5_GetReturnsValueOrDefault ==
  store_call.op = "load_from_temp" =>
    store_ret = (IF store_call.before.kind = "json"
                    /\ store_call.key \in DOMAIN store_call.before.obj
                 THEN store_call.before.obj[store_call.key]
                 ELSE store_call.arg)

\* C6, as claimed: a real rt_settings_on of FrequencyScaling followed by its
\* real rt_settings_off leaves every scaling_min_freq file as the
\* rt_settings_on found it.
C6_FrequencyRoundTrip ==
  freq_phase = "reverted" => scaling_min_freq = freq_pre

\* C6, amended: after a real rt_settings_on every scaling_min_freq file holds
\* its cpu's cpuinfo_max_freq, and after the real rt_settings_off that follows
\* it holds its cpu's cpuinfo_min_freq, whatever it held before.
C6_FrequencyRevertsToHardwareMin ==
  /\ freq_phase = "applied" =>
       \A c \in Cpus : scaling_min_freq[c] = cpuinfo_max_freq[c]
  /\ freq_phase = "reverted" =>
       \A c \in Cpus : scaling_min_freq[c] = cpuinfo_min_freq[c]

C6_Witness ==
  /\ freq_phase = "reverted"
  /\ pc = "exit"
  /\ \E c \in Cpus : freq_pre[c] # cpuinfo_min_freq[c]
  /\ \A c \in Cpus : scaling_min_freq[c] = cpuinfo_min_freq[c]

\* C7, as claimed: in the first run on a machine (no rt_settings_on was ever
\* called), by root and with systemctl present, a real `off` run raises
\* nothing, and once IntelPState's rt_settings_off was called the no_turbo
\* file holds the hardcoded default.
C7_RevertWithoutApply ==
  (argv.on_or_off = "off" /\ ~argv.simulate /\ uid = 0 /\ unit_files.present) =>
    /\ raised = "none"
    /\ InSeq("IntelPState", invoked) => no_turbo = Str(PSTATE_NO_TURBO_OFF_DEFAULT)

\* C8: a call of service() for a name that is not in the cached unit list
\* (the list having been fetched) runs no command, not even simulated, and
\* raises nothing; no start/stop command ever names a unit outside the list;
\* and the list is fetched at most once per run.
C8_UnknownServiceIsNoOp ==
  /\ \A i \in 1..Len(svc_log) :
       (svc_log[i].listed /\ ~InSeq(svc_log[i].name, cache.names)) =>
         ~svc_log[i].ran /\ svc_log[i].raised = "none"
  /\ \A i \in 1..Len(effects) :
       effects[i].op = "call" => InSeq(effects[i].b, cache.names)
  /\ \A i \in 1..Len(printed) :
       printed[i].what.op = "call" => InSeq(printed[i].what.b, cache.names)
  /\ CountOp(effects, "check_output") <= 1

C8_Witness ==
  /\ ~argv.simulate
  /\ Len(svc_log) >= 2
  /\ svc_log[1].name = "cron" /\ svc_log[1].ran
  /\ svc_log[2].name = "crond" /\ svc_log[2].listed /\ ~svc_log[2].ran
  /\ ~InSeq("crond", cache.names)
  /\ CountOp(effects, "check_output") = 1
  /\ CountOp(effects, "call") = 1

\* C9, as claimed: a run whose --ignore names are all registered modules, in
\* which no module operation raises, exits with 0.
C9_KnownIgnoresExitZero ==
  (pc = "exit" /\ raised = "none"
     /\ \A i \in 1..Len(argv.ignore) : IsRegistered(argv.ignore[i])) =>
    exit_code = 0

\* C10: when the operation of the k-th remaining module raises, the run has
\* ended with status 1, the modules before it were each invoked once in
\* registration order, and no later module is invoked.
C10_AbortOnFailure ==
  raised # "none" =>
    /\ pc = "exit"
    /\ exit_code = 1
    /\ invoked # <<>>
    /\ idx = Len(invoked)
    /\ invoked = SubSeq(settings_modules, 1, idx)

C10_Witness ==
  /\ ~argv.simulate
  /\ argv.on_or_off = "on"
  /\ raised = "FileNotFoundError"
  /\ pc = "exit"
  /\ invoked = <<"CheckForRealTimeKernel", "Cron">>
  /\ Len(settings_modules) = 5

====
